---- MODULE Spec2Model ----
(***************************************************************************)
(* Cornerstone property valuator: the PredictionForm component, its form   *)
(* state hook (useCornerstoneFormState) and its pricing hook               *)
(* (usePricingCalculation).                                                *)
(*                                                                         *)
(* A JavaScript string is modelled as the sequence of its characters, so   *)
(* that parseFloat is computed on the text and not assumed.  A JavaScript  *)
(* number is modelled as an exact rational [num, den] or as NaN; binary    *)
(* floating-point rounding error (below 1e-9 for the magnitudes here) is   *)
(* not modelled.                                                           *)
(***************************************************************************)
EXTENDS Integers, Sequences, FiniteSets, TLC

VARIABLES propertyData,      \* useState<PropertyAttributes>            (l.45)
          validationStatus,  \* useMemo(validateFormCompletion)         (l.182)
          estimatedValue,    \* useState<number | null>                 (l.105)
          isCalculating,     \* useState(false)                         (l.106)
          timers,            \* pending setTimeout callbacks, in order  (l.111)
          resultFrom,        \* history: attributes the last delivered result was
                             \* computed from, forgotten at the next field edit
          editedSinceSubmit  \* history: a result was cleared by an edit and no
                             \* submission has been accepted since

vars == <<propertyData, validationStatus, estimatedValue, isCalculating,
          timers, resultFrom, editedSinceSubmit>>

\* ------------------------------------------------------------------------
\* Bounds of the model
\* ------------------------------------------------------------------------

\* Math.random() is drawn from { k / (2*RandomHalfSteps) : 0 <= k < 2*RandomHalfSteps },
\* a grid of [0, 1) that always holds 0 and 1/2.
RandomHalfSteps == 2

\* Cap on the number of setTimeout callbacks pending at once.
MaxTimers == 2

\* ------------------------------------------------------------------------
\* JavaScript values
\* ------------------------------------------------------------------------

\* Every value is a record tagged with its kind, a number being the exact
\* rational num/den.
NULL == [kind |-> "null"]
UNDEFINED == [kind |-> "undefined"]
NaN == [kind |-> "NaN"]
\* A property inherited from Object.prototype (constructor, toString, ...):
\* a truthy value that is not a number.
PrototypeMember == [kind |-> "function"]

IsNumber(x) == x.kind = "num"

Abs(n) == IF n < 0 THEN -n ELSE n

RECURSIVE GCD(_, _)
GCD(a, b) == IF b = 0 THEN a ELSE GCD(b, a % b)

\* The rational n/d in lowest terms, d > 0.
Rat(n, d) ==
    LET g == GCD(Abs(n), d)
    IN  [kind |-> "num", num |-> n \div g, den |-> d \div g]

Int2Num(n) == [kind |-> "num", num |-> n, den |-> 1]

\* a * b, a + b, a - b on JavaScript numbers: NaN when an operand is not a number.
Mul(a, b) ==
    IF IsNumber(a) /\ IsNumber(b)
    THEN LET g1 == GCD(Abs(a.num), b.den)
             g2 == GCD(Abs(b.num), a.den)
         IN  Rat((a.num \div g1) * (b.num \div g2), (a.den \div g2) * (b.den \div g1))
    ELSE NaN

Add(a, b) ==
    IF IsNumber(a) /\ IsNumber(b)
    THEN LET g == GCD(a.den, b.den)
         IN  Rat(a.num * (b.den \div g) + b.num * (a.den \div g), (a.den \div g) * b.den)
    ELSE NaN

Sub(a, b) == IF IsNumber(b) THEN Add(a, Rat(-b.num, b.den)) ELSE NaN

\* Math.max(0, x)
MathMax0(x) == IF IsNumber(x) THEN (IF x.num < 0 THEN Int2Num(0) ELSE x) ELSE NaN

\* Math.round(x): the integer nearest to x, ties towards +Infinity.
MathRound(x) ==
    IF IsNumber(x) THEN Int2Num((2 * x.num + x.den) \div (2 * x.den)) ELSE NaN

\* ToBoolean(x) of a value
Truthy(x) ==
    CASE x.kind = "num" -> x.num # 0
      [] x.kind = "function" -> TRUE
      [] OTHER -> FALSE

\* ------------------------------------------------------------------------
\* parseFloat
\* ------------------------------------------------------------------------

Digits == {"0", "1", "2", "3", "4", "5", "6", "7", "8", "9"}
WhiteSpace == {" "}

DigitValue(c) ==
    CASE c = "0" -> 0 [] c = "1" -> 1 [] c = "2" -> 2 [] c = "3" -> 3 [] c = "4" -> 4
      [] c = "5" -> 5 [] c = "6" -> 6 [] c = "7" -> 7 [] c = "8" -> 8 [] c = "9" -> 9

\* The first index >= i of s whose character is not in set (Len(s)+1 if none).
RECURSIVE SkipWhile(_, _, _)
SkipWhile(s, i, set) ==
    IF i <= Len(s) /\ s[i] \in set THEN SkipWhile(s, i + 1, set) ELSE i

\* The decimal value of the digits s[i], ..., s[j-1].
RECURSIVE DigitsValue(_, _, _)
DigitsValue(s, i, j) ==
    IF i >= j THEN 0 ELSE DigitsValue(s, i, j - 1) * 10 + DigitValue(s[j - 1])

RECURSIVE Pow10(_)
Pow10(n) == IF n = 0 THEN 1 ELSE 10 * Pow10(n - 1)

\* parseFloat(s): skips leading white space, then reads the longest prefix
\* [sign] digits [. digits] [e [sign] digits] that has at least one mantissa
\* digit; NaN when there is none.  (The literal "Infinity" is outside the
\* alphabet of the inputs used here.)
parseFloat(s) ==
    LET a      == SkipWhile(s, 1, WhiteSpace)
        signed == a <= Len(s) /\ s[a] \in {"+", "-"}
        neg    == signed /\ s[a] = "-"
        b      == IF signed THEN a + 1 ELSE a
        c      == SkipWhile(s, b, Digits)
        hasDot == c <= Len(s) /\ s[c] = "."
        d      == IF hasDot THEN SkipWhile(s, c + 1, Digits) ELSE c
        nInt   == c - b
        nFrac  == IF hasDot THEN d - (c + 1) ELSE 0
        mant   == DigitsValue(s, b, c) * Pow10(nFrac)
                    + (IF hasDot THEN DigitsValue(s, c + 1, d) ELSE 0)
        hasE   == d <= Len(s) /\ s[d] \in {"e", "E"}
        eSign  == hasE /\ d + 1 <= Len(s) /\ s[d + 1] \in {"+", "-"}
        f      == IF eSign THEN d + 2 ELSE d + 1
        g      == IF hasE THEN SkipWhile(s, f, Digits) ELSE f
        hasExp == hasE /\ g > f
        ex     == IF hasExp THEN DigitsValue(s, f, g) ELSE 0
        eNeg   == hasExp /\ eSign /\ s[d + 1] = "-"
        n      == IF neg THEN -mant ELSE mant
    IN  IF nInt + nFrac = 0 THEN NaN
        ELSE IF eNeg THEN Rat(n, Pow10(nFrac) * Pow10(ex))
        ELSE Rat(n * Pow10(ex), Pow10(nFrac))

\* ------------------------------------------------------------------------
\* Strings used as field values
\* ------------------------------------------------------------------------

EMPTY == <<>>
S_4 == <<"4">>
S_2000 == <<"2", "0", "0", "0">>
S_abc == <<"a", "b", "c">>
S_0 == <<"0">>
S_1 == <<"1">>
S_2 == <<"2">>
S_3 == <<"3">>
S_1_5 == <<"1", ".", "5">>
S_3plus == <<"3", "+">>
S_4plus == <<"4", "+">>
S_5plus == <<"5", "+">>
S_2010 == <<"2", "0", "1", "0">>
S_2025 == <<"2", "0", "2", "5">>
S_2030 == <<"2", "0", "3", "0">>
S_urban == <<"u", "r", "b", "a", "n">>
S_suburban == <<"s", "u", "b", "u", "r", "b", "a", "n">>
S_rural == <<"r", "u", "r", "a", "l">>
S_downtown == <<"d", "o", "w", "n", "t", "o", "w", "n">>
S_constructor == <<"c", "o", "n", "s", "t", "r", "u", "c", "t", "o", "r">>
S_toString == <<"t", "o", "S", "t", "r", "i", "n", "g">>

\* ------------------------------------------------------------------------
\* useCornerstoneFormState
\* ------------------------------------------------------------------------

\* The keys of PropertyAttributes, in the order validationMap lists them.
FieldOrder == <<"livingArea", "bedroomCount", "bathroomCount",
                "geographicZone", "constructionYear", "parkingSpaces">>
Fields == {FieldOrder[i] : i \in 1..Len(FieldOrder)}

InitialPropertyData == [f \in Fields |-> EMPTY]

\* Mutant of Not: a value that is not a number counts as missing too.
Not_rejectsNonNumeric(s) == parseFloat(s) = NaN

\* !s of a string s: true for the empty string only.
Not(s) == Len(s) = 0

validationMap(pd) == [f \in Fields |-> Not(pd[f])]

\* Mutant of validateFormCompletion: parkingSpaces is left out of the map.
validateFormCompletion_omitsParking(pd) ==
    LET IsEmptyEntry(f) == f # "parkingSpaces" /\ validationMap(pd)[f]
        invalidFields   == SelectSeq(FieldOrder, IsEmptyEntry)
    IN  [isValid |-> Len(invalidFields) = 0, invalidFields |-> invalidFields]

validateFormCompletion(pd) ==
    LET IsEmptyEntry(f) == validationMap(pd)[f]
        invalidFields   == SelectSeq(FieldOrder, IsEmptyEntry)
    IN  [isValid |-> Len(invalidFields) = 0, invalidFields |-> invalidFields]

\* setPropertyData(prev => ({...prev, [fieldName]: value}))
updateField(fieldName, value) ==
    propertyData' = [propertyData EXCEPT ![fieldName] = value]

\* setPropertyData({livingArea: '', ..., parkingSpaces: ''})
resetForm == propertyData' = InitialPropertyData

\* ------------------------------------------------------------------------
\* usePricingCalculation: the valuation model of the delayed callback
\* ------------------------------------------------------------------------

FOUNDATION_VALUE == 150000
AREA_MULTIPLIER == 120
BEDROOM_INCREMENT == 25000
BATHROOM_INCREMENT == 15000
PARKING_VALUE == 10000
ANNUAL_DEPRECIATION == 500
CURRENT_YEAR == 2025

\* Names every object inherits from Object.prototype.
ObjectPrototypeKeys == {S_constructor, S_toString}

\* LOCATION_FACTORS[key]: an own property, else an inherited one, else undefined.
LOCATION_FACTORS(key) ==
    CASE key = S_urban -> Rat(14, 10)
      [] key = S_suburban -> Rat(12, 10)
      [] key = S_rural -> Rat(10, 10)
      [] key \in ObjectPrototypeKeys -> PrototypeMember
      [] OTHER -> UNDEFINED

livingAreaValue(pd) == parseFloat(pd.livingArea)
\* Mutant of bedroomValue: Number(s) in place of parseFloat(s), which takes no
\* text after the numeral.
bedroomValue_wholeString(pd) ==
    IF \A i \in 1..Len(pd.bedroomCount) : pd.bedroomCount[i] \in Digits \cup {"."}
    THEN parseFloat(pd.bedroomCount)
    ELSE NaN

bedroomValue(pd) == parseFloat(pd.bedroomCount)
bathroomValue(pd) == parseFloat(pd.bathroomCount)
propertyAge(pd) == Sub(Int2Num(CURRENT_YEAR), parseFloat(pd.constructionYear))
parkingValue(pd) == parseFloat(pd.parkingSpaces)

areaComponent(pd) == Mul(livingAreaValue(pd), Int2Num(AREA_MULTIPLIER))
bedroomComponent(pd) == Mul(bedroomValue(pd), Int2Num(BEDROOM_INCREMENT))
bathroomComponent(pd) == Mul(bathroomValue(pd), Int2Num(BATHROOM_INCREMENT))
\* Mutant of ageComponent: the depreciation is not clamped at 0.
ageComponent_unclamped(pd) == Mul(propertyAge(pd), Int2Num(ANNUAL_DEPRECIATION))

ageComponent(pd) == MathMax0(Mul(propertyAge(pd), Int2Num(ANNUAL_DEPRECIATION)))
parkingComponent(pd) == Mul(parkingValue(pd), Int2Num(PARKING_VALUE))

\* LOCATION_FACTORS[zone] || 1.0
locationFactor(pd) ==
    LET v == LOCATION_FACTORS(pd.geographicZone)
    IN  IF Truthy(v) THEN v ELSE Int2Num(1)

baseValuation(pd) ==
    Sub(Add(Add(Add(Add(Int2Num(FOUNDATION_VALUE), areaComponent(pd)),
                    bedroomComponent(pd)), bathroomComponent(pd)),
            parkingComponent(pd)),
        ageComponent(pd))

adjustedValuation(pd) == Mul(baseValuation(pd), locationFactor(pd))

\* The values Math.random() is drawn from.
MathRandom == {Rat(k, 2 * RandomHalfSteps) : k \in 0..(2 * RandomHalfSteps - 1)}

\* Mutant of volatilityRange: a swing of 10% either way.
volatilityRange_tenPercent(pd, random) ==
    Mul(adjustedValuation(pd), Sub(Mul(random, Rat(2, 10)), Rat(1, 10)))

\* adjustedValuation * (Math.random() * 0.1 - 0.05), random being the draw.
volatilityRange(pd, random) ==
    Mul(adjustedValuation(pd), Sub(Mul(random, Rat(1, 10)), Rat(5, 100)))

finalValuation(pd, random) ==
    MathRound(Add(adjustedValuation(pd), volatilityRange(pd, random)))

\* What the callback scheduled by executeValuationAlgorithm(pd) closes over.
ScheduledCallback(pd) == [propertyData |-> pd]

\* Mutant of CallbackAttributes: the callback reads the fields as they are
\* when it runs.
CallbackAttributes_currentFields(timer) == propertyData

\* The attributes a pending callback computes from: its own captured argument.
CallbackAttributes(timer) == timer.propertyData

\* setIsCalculating(true); setTimeout(callback, 1500)
executeValuationAlgorithm(pd) ==
    /\ isCalculating' = TRUE
    /\ timers' = Append(timers, ScheduledCallback(pd))

\* The body of the callback: setEstimatedValue(finalValuation); setIsCalculating(false)
valuationCallback(timer, random) ==
    /\ estimatedValue' = finalValuation(CallbackAttributes(timer), random)
    /\ isCalculating' = FALSE

\* setEstimatedValue(null)
clearValuation == estimatedValue' = NULL

\* ------------------------------------------------------------------------
\* PredictionForm
\* ------------------------------------------------------------------------

\* The component re-renders after a state change: useMemo recomputes
\* validationStatus from the new propertyData.
Rerender == validationStatus' = validateFormCompletion(propertyData')

\* Mutant of handleFieldChange: an edit also cancels the pending timeout.
handleFieldChange_cancelsTimer(name, value) ==
    /\ updateField(name, value)
    /\ clearValuation
    /\ Rerender
    /\ timers' = <<>>
    /\ UNCHANGED isCalculating

handleFieldChange(name, value) ==
    /\ updateField(name, value)
    /\ clearValuation
    /\ Rerender
    /\ UNCHANGED <<isCalculating, timers>>

\* Mutant of handleFormSubmission: an accepted submission clears the
\* displayed result before it schedules the computation.
handleFormSubmission_clearsResult ==
    IF validationStatus.isValid
    THEN /\ executeValuationAlgorithm(propertyData)
         /\ estimatedValue' = NULL
         /\ UNCHANGED <<propertyData, validationStatus>>
    ELSE UNCHANGED <<propertyData, validationStatus, estimatedValue,
                     isCalculating, timers>>

\* event.preventDefault(); if (validationStatus.isValid) execute(propertyData)
handleFormSubmission ==
    IF validationStatus.isValid
    THEN /\ executeValuationAlgorithm(propertyData)
         /\ UNCHANGED <<propertyData, validationStatus, estimatedValue>>
    ELSE UNCHANGED <<propertyData, validationStatus, estimatedValue,
                     isCalculating, timers>>

\* Mutant of submitDisabled: the button stays enabled while calculating.
submitDisabled_ignoresCalculating == ~validationStatus.isValid

\* disabled={!validationStatus.isValid || pricing.isCalculating}
submitDisabled == ~validationStatus.isValid \/ isCalculating

\* ------------------------------------------------------------------------
\* The page: events of the form
\* ------------------------------------------------------------------------

\* Values the widgets can put into a field (besides the empty string): a
\* number typed into a type="number" input, an option of a <select>.  With
\* these values the browser's own constraint validation (required, min,
\* max, step) accepts exactly the forms validateFormCompletion accepts.
WidgetValues(f) ==
    CASE f = "livingArea" -> {S_4, S_2000}
      [] f = "bedroomCount" -> {S_3, S_5plus}
      [] f = "bathroomCount" -> {S_2, S_4plus}
      [] f = "geographicZone" -> {S_urban, S_suburban}
      [] f = "constructionYear" -> {S_2010}
      [] f = "parkingSpaces" -> {S_2}

Init ==
    /\ propertyData = InitialPropertyData
    /\ validationStatus = validateFormCompletion(propertyData)
    /\ estimatedValue = NULL
    /\ isCalculating = FALSE
    /\ timers = <<>>
    /\ resultFrom = NULL
    /\ editedSinceSubmit = FALSE

\* A change event of one input or select: the value differs from the one shown.
FieldEdit ==
    \E f \in Fields : \E value \in WidgetValues(f) \cup {EMPTY} :
        /\ value # propertyData[f]
        /\ handleFieldChange(f, value)
        /\ resultFrom' = NULL
        /\ editedSinceSubmit' = (editedSinceSubmit \/ estimatedValue # NULL)

\* The user activates the submit control (a click, or Enter in a field).  A
\* disabled button dispatches no submit event; otherwise onSubmit runs.
SubmitEvent ==
    IF submitDisabled
    THEN UNCHANGED vars
    ELSE /\ Len(timers) < MaxTimers
         /\ handleFormSubmission
         /\ editedSinceSubmit' = (editedSinceSubmit /\ ~validationStatus.isValid)
         /\ UNCHANGED resultFrom

\* The delay of the oldest pending timeout has elapsed: its callback runs.
TimerFire ==
    /\ timers # <<>>
    /\ \E random \in MathRandom : valuationCallback(Head(timers), random)
    /\ timers' = Tail(timers)
    /\ resultFrom' = CallbackAttributes(Head(timers))
    /\ UNCHANGED <<propertyData, validationStatus, editedSinceSubmit>>

Next == FieldEdit \/ SubmitEvent \/ TimerFire

Spec == Init /\ [][Next]_vars

\* The event loop takes the oldest pending timeout off its queue.  Under Next
\* the steps that do so are exactly the TimerFire steps, and both are enabled
\* exactly when a timeout is pending.
TimeoutRuns == timers # <<>> /\ timers' = Tail(timers)

\* A pending timeout always runs once its delay has elapsed: weak fairness
\* of TimerFire, stated on the queue.
FairSpec == Spec /\ WF_timers(TimeoutRuns)

\* ------------------------------------------------------------------------
\* The hooks called directly, on any attribute strings
\* ------------------------------------------------------------------------

CalcValues(f) ==
    CASE f = "livingArea" -> {EMPTY, S_4, S_2000, S_abc}
      [] f = "bedroomCount" -> {EMPTY, S_1, S_3, S_5plus}
      [] f = "bathroomCount" -> {EMPTY, S_1_5, S_2, S_4plus}
      [] f = "geographicZone" ->
            {EMPTY, S_urban, S_suburban, S_rural, S_downtown, S_constructor}
      [] f = "constructionYear" -> {EMPTY, S_2010, S_2025, S_2030}
      [] f = "parkingSpaces" -> {EMPTY, S_0, S_2, S_3, S_3plus}

InitCalc ==
    /\ propertyData \in [livingArea : CalcValues("livingArea"),
                         bedroomCount : CalcValues("bedroomCount"),
                         bathroomCount : CalcValues("bathroomCount"),
                         geographicZone : CalcValues("geographicZone"),
                         constructionYear : CalcValues("constructionYear"),
                         parkingSpaces : CalcValues("parkingSpaces")]
    /\ validationStatus = NULL
    /\ estimatedValue = NULL
    /\ isCalculating = FALSE
    /\ timers = <<>>
    /\ resultFrom = NULL
    /\ editedSinceSubmit = FALSE

\* validateFormCompletion(), once per attribute set.
CalcValidate ==
    /\ validationStatus = NULL
    /\ validationStatus' = validateFormCompletion(propertyData)
    /\ UNCHANGED <<propertyData, estimatedValue, isCalculating, timers,
                   resultFrom, editedSinceSubmit>>

\* executeValuationAlgorithm(propertyData), once per attribute set.
CalcInvoke ==
    /\ timers = <<>>
    /\ estimatedValue = NULL
    /\ executeValuationAlgorithm(propertyData)
    /\ UNCHANGED <<propertyData, validationStatus, estimatedValue,
                   resultFrom, editedSinceSubmit>>

NextCalc == CalcValidate \/ CalcInvoke \/ TimerFire

SpecCalc == InitCalc /\ [][NextCalc]_vars

\* ------------------------------------------------------------------------
\* The page, with the two hook operations the component exports but leaves
\* to its callers: pricing.clearValuation() and formState.resetForm()
\* ------------------------------------------------------------------------

\* Mutant of ClearCall: clearing the result also cancels the pending
\* timeout and resets the calculating flag.
ClearCall_cancelsPending ==
    /\ clearValuation
    /\ timers' = <<>>
    /\ isCalculating' = FALSE
    /\ UNCHANGED <<propertyData, validationStatus, resultFrom, editedSinceSubmit>>

\* A call of clearValuation(): setEstimatedValue(null) and nothing else.
ClearCall ==
    /\ clearValuation
    /\ UNCHANGED <<propertyData, validationStatus, isCalculating, timers,
                   resultFrom, editedSinceSubmit>>

\* A call of resetForm(): setPropertyData and nothing else; the component
\* re-renders.
ResetCall ==
    /\ resetForm
    /\ Rerender
    /\ UNCHANGED <<estimatedValue, isCalculating, timers, resultFrom,
                   editedSinceSubmit>>

NextApi == Next \/ ClearCall \/ ResetCall

SpecApi == Init /\ [][NextApi]_vars

\* ------------------------------------------------------------------------
\* Properties
\* ------------------------------------------------------------------------

EmptyFields(pd) == {f \in Fields : pd[f] = EMPTY}

AllFieldsNonEmpty == EmptyFields(propertyData) = {}

\* C1: validateFormCompletion reports exactly the fields whose value is the
\* empty string, each once, and isValid holds iff there is none; whether
\* the other values are numeric or recognised plays no part.
C1_MissingFieldsExact ==
    validationStatus # NULL =>
        LET listed == validationStatus.invalidFields
            named  == {listed[i] : i \in 1..Len(listed)}
        IN  /\ named = EmptyFields(propertyData)
            /\ Len(listed) = Cardinality(named)
            /\ validationStatus.isValid <=> (EmptyFields(propertyData) = {})

\* C1 witness: a non-numeric area and an unrecognised zone count as present,
\* the one empty field is the one reported.
C1_Witness ==
    /\ validationStatus # NULL
    /\ propertyData.livingArea = S_abc
    /\ propertyData.geographicZone = S_downtown
    /\ EmptyFields(propertyData) = {"parkingSpaces"}
    /\ validationStatus.invalidFields = <<"parkingSpaces">>
    /\ ~validationStatus.isValid

\* C2: a computation starts only from a form whose six fields are all
\* non-empty, and a submit with an empty field changes neither the fields,
\* nor the calculating flag, nor the result, nor the pending computations.
C2_SubmitOnlyWhenComplete ==
    [][ /\ (Len(timers') > Len(timers) => AllFieldsNonEmpty)
        /\ (SubmitEvent /\ ~AllFieldsNonEmpty =>
                UNCHANGED <<propertyData, isCalculating, estimatedValue, timers>>)
      ]_vars

\* C2 witness: a computation is pending that a submit of the complete form started.
C2_Witness ==
    /\ Len(timers) = 1
    /\ timers[1].propertyData = propertyData
    /\ AllFieldsNonEmpty

\* C3 (as claimed): once an edit has cleared a displayed result, the result
\* stays absent until a submission is accepted after that edit.
C3_ResultAbsentUntilSubmit == editedSinceSubmit => estimatedValue = NULL

\* C4: at most one computation is pending, and a submit made while one is
\* pending starts no other and changes neither the flag nor the result.
C4_SingleComputationInFlight ==
    [][ /\ Len(timers') <= 1
        /\ (timers # <<>> /\ SubmitEvent =>
                UNCHANGED <<timers, isCalculating, estimatedValue>>)
      ]_vars

\* C4 witness: a computation is pending while the form is still complete, so
\* only the calculating flag keeps the submit control disabled.
C4_Witness ==
    /\ isCalculating
    /\ Len(timers) = 1
    /\ validationStatus.isValid
    /\ submitDisabled

\* C5: an accepted submission sets the calculating flag; the flag falls
\* only in the step in which the oldest pending callback runs, and that
\* step stores a result; a pending callback leaves the queue in no other
\* way (no edit and no clearValuation cancels it); and, the timer being
\* fair, every pending computation is eventually delivered.
C5_FlagFollowsTimer ==
    /\ [][ /\ (Len(timers') > Len(timers) => isCalculating')
           /\ (isCalculating /\ ~isCalculating' =>
                   /\ timers # <<>>
                   /\ timers' = Tail(timers)
                   /\ estimatedValue' # NULL)
           /\ (timers' # timers /\ Len(timers') <= Len(timers) =>
                   /\ timers # <<>>
                   /\ timers' = Tail(timers)
                   /\ estimatedValue' # NULL
                   /\ ~isCalculating')
         ]_vars
    /\ (isCalculating ~> ~isCalculating)
    /\ ((timers # <<>>) ~> (timers = <<>>))

\* C5 witness: a result has been delivered, the flag is back to idle, and the
\* fields were edited while the computation was pending.
C5_Witness ==
    /\ ~isCalculating
    /\ timers = <<>>
    /\ estimatedValue # NULL
    /\ resultFrom # NULL
    /\ EmptyFields(propertyData) # {}

\* ------------------------------------------------------------------------
\* The valuation as the specification states it, in integer arithmetic
\* ------------------------------------------------------------------------

\* Ten times the number a plain decimal numeral among the inputs denotes.
NumeralTimes10(s) ==
    CASE s = S_0 -> 0 [] s = S_1 -> 10 [] s = S_2 -> 20 [] s = S_3 -> 30
      [] s = S_4 -> 40 [] s = S_1_5 -> 15 [] s = S_2000 -> 20000
      [] s = S_2010 -> 20100 [] s = S_2025 -> 20250 [] s = S_2030 -> 20300

Numerals == {S_0, S_1, S_2, S_3, S_4, S_1_5, S_2000, S_2010, S_2025, S_2030}

RecognisedZones == {S_urban, S_suburban, S_rural}

\* A complete attribute set with numeric inputs and a recognised zone.
NumericAttributes(pd) ==
    /\ pd # NULL
    /\ \A f \in Fields \ {"geographicZone"} : pd[f] \in Numerals
    /\ pd.geographicZone \in RecognisedZones

StatedFactorTimes10(zone) ==
    CASE zone = S_urban -> 14 [] zone = S_suburban -> 12 [] OTHER -> 10

StatedAge(pd) ==
    LET years50 == (20250 - NumeralTimes10(pd.constructionYear)) * 50
    IN  IF years50 > 0 THEN years50 ELSE 0

StatedBase(pd) ==
    150000 + NumeralTimes10(pd.livingArea) * 12
           + NumeralTimes10(pd.bedroomCount) * 2500
           + NumeralTimes10(pd.bathroomCount) * 1500
           + NumeralTimes10(pd.parkingSpaces) * 1000
           - StatedAge(pd)

StatedAdjustedTimes10(pd) == StatedBase(pd) * StatedFactorTimes10(pd.geographicZone)

\* The jitters j = m / (20 * RandomHalfSteps) of [-0.05, 0.05) on the grid of
\* the random draws.
JitterSteps == (0 - RandomHalfSteps)..(RandomHalfSteps - 1)

\* round(adjusted + adjusted * j), ties upwards, for j = m / (20 * RandomHalfSteps)
StatedResult(pd, m) ==
    LET den == 200 * RandomHalfSteps
        num == StatedAdjustedTimes10(pd) * (20 * RandomHalfSteps + m)
    IN  (2 * num + den) \div (2 * den)

ExampleAttributes ==
    [livingArea |-> S_2000, bedroomCount |-> S_3, bathroomCount |-> S_2,
     geographicZone |-> S_suburban, constructionYear |-> S_2010,
     parkingSpaces |-> S_2]

\* The result is round(adjusted + adjusted*j) for a jitter j of the grid, and
\* the example of the specification has the stated values.
ResultIsRoundedJitter ==
    /\ NumericAttributes(resultFrom) =>
          \E m \in JitterSteps :
              estimatedValue = Int2Num(StatedResult(resultFrom, m))
    /\ finalValuation(ExampleAttributes, Rat(1, 2)) = Int2Num(609000)
    /\ resultFrom = ExampleAttributes =>
          /\ estimatedValue.num >= 578550
          /\ estimatedValue.num <= 639450

YearNumerals == {S_2010, S_2025, S_2030}

StatedYear(s) == NumeralTimes10(s) \div 10

\* C7: once the callback has run on attributes whose constructionYear is a
\* year numeral, the age component it used is 0 for a year after 2025, the
\* base valuation then being the one of year 2025, and (2025 - year) * 500
\* for a year up to 2025.
C7_AgeComponentClamped ==
    (resultFrom # NULL /\ resultFrom.constructionYear \in YearNumerals) =>
        LET year == StatedYear(resultFrom.constructionYear)
        IN  /\ year > 2025 =>
                /\ ageComponent(resultFrom) = Int2Num(0)
                /\ baseValuation(resultFrom) =
                     baseValuation([resultFrom EXCEPT !.constructionYear = S_2025])
            /\ year <= 2025 =>
                ageComponent(resultFrom) = Int2Num((2025 - year) * 500)

\* C7 witness: a result delivered for a house built in 2030.
C7_Witness ==
    /\ resultFrom # NULL
    /\ resultFrom.constructionYear = S_2030
    /\ IsNumber(estimatedValue)

\* C8 (as claimed): the location factor the callback used is 1.4 for urban,
\* 1.2 for suburban and 1.0 for rural and for every other zone.
C8_LocationFactorDefault ==
    resultFrom # NULL =>
        locationFactor(resultFrom) =
            Rat(StatedFactorTimes10(resultFrom.geographicZone), 10)

\* Values the widgets offer or accept for each field.
SelectableValues(f) ==
    CASE f = "livingArea" -> {S_4, S_2000}
      [] f = "bedroomCount" -> {S_1, S_3, S_5plus}
      [] f = "bathroomCount" -> {S_1_5, S_2, S_4plus}
      [] f = "geographicZone" -> RecognisedZones
      [] f = "constructionYear" -> {S_2010, S_2025}
      [] f = "parkingSpaces" -> {S_0, S_2, S_3}

\* C9: the callback values "5+" bedrooms as 5, "4+" bathrooms as 4 and "3+"
\* parking spaces as 3, and the result of a form filled from the widgets'
\* values is a number.
C9_PlusValuesParsed ==
    resultFrom # NULL =>
        /\ resultFrom.bedroomCount = S_5plus =>
              /\ bedroomValue(resultFrom) = Int2Num(5)
              /\ bedroomComponent(resultFrom) = Int2Num(125000)
        /\ resultFrom.bathroomCount = S_4plus =>
              /\ bathroomValue(resultFrom) = Int2Num(4)
              /\ bathroomComponent(resultFrom) = Int2Num(60000)
        /\ resultFrom.parkingSpaces = S_3plus =>
              /\ parkingValue(resultFrom) = Int2Num(3)
              /\ parkingComponent(resultFrom) = Int2Num(30000)
        /\ (\A f \in Fields : resultFrom[f] \in SelectableValues(f)) =>
              IsNumber(estimatedValue)

\* C9 witness: a numeric result for "5+" bedrooms and "4+" bathrooms.
C9_Witness ==
    /\ resultFrom # NULL
    /\ resultFrom.bedroomCount = S_5plus
    /\ resultFrom.bathroomCount = S_4plus
    /\ \A f \in Fields : resultFrom[f] \in SelectableValues(f)
    /\ IsNumber(estimatedValue)

\* C10: an accepted submission queues a callback holding the fields as they
\* are at the submit; the queued attributes never change while they wait;
\* and the result the callback stores is the valuation of those attributes,
\* whatever the fields have become.
C10_SnapshotAtSubmission ==
    [][ /\ Len(timers') > Len(timers) =>
              timers' = Append(timers, [propertyData |-> propertyData])
        /\ Len(timers') = Len(timers) => timers' = timers
        /\ Len(timers') < Len(timers) =>
              /\ timers' = Tail(timers)
              /\ \E random \in MathRandom :
                    estimatedValue' = finalValuation(timers[1].propertyData, random)
      ]_vars

\* C10 witness: the displayed result was computed from the submitted
\* attributes although a field has been emptied since.
C10_Witness ==
    /\ estimatedValue # NULL
    /\ IsNumber(estimatedValue)
    /\ resultFrom # NULL
    /\ EmptyFields(resultFrom) = {}
    /\ propertyData.bedroomCount = EMPTY

\* C11 (as claimed): the fields do not change while a computation is
\* pending, and a displayed result was computed from attributes equal to
\* the current fields.
C11_ResultMatchesFields ==
    /\ estimatedValue # NULL => resultFrom = propertyData
    /\ timers # <<>> => timers[1].propertyData = propertyData

\* C12: a call of clearValuation leaves the result absent and changes
\* nothing else; and whenever a displayed result becomes absent while no
\* field changes, the calculating flag and the pending callbacks are as
\* they were.
C12_ClearOnlyDropsResult ==
    [][ /\ ClearCall =>
              /\ estimatedValue' = NULL
              /\ UNCHANGED <<propertyData, isCalculating, timers>>
        /\ (estimatedValue # NULL /\ estimatedValue' = NULL
                /\ propertyData' = propertyData) =>
              UNCHANGED <<isCalculating, timers>>
      ]_vars

\* C12 witness: a delivered result has been cleared with no edit, while a
\* computation is pending: the flag is still set and the callback still queued.
C12_Witness ==
    /\ estimatedValue = NULL
    /\ resultFrom # NULL
    /\ isCalculating
    /\ Len(timers) = 1
    /\ AllFieldsNonEmpty

\* C13 (as claimed): a call of resetForm leaves all six fields empty, the
\* form incomplete and the result absent.
C13_ResetClearsFieldsAndResult ==
    [][ ResetCall =>
            /\ propertyData' = InitialPropertyData
            /\ ~validationStatus'.isValid
            /\ estimatedValue' = NULL
      ]_vars

\* C14: a step that schedules a computation leaves the stored result as it
\* was; while a computation is pending the stored result changes only in
\* the step in which the oldest pending callback runs, or by a field edit
\* that clears it.
C14_SubmitKeepsResult ==
    [][ /\ Len(timers') > Len(timers) => estimatedValue' = estimatedValue
        /\ (timers # <<>> /\ estimatedValue' # estimatedValue) =>
              \/ timers' = Tail(timers)
              \/ propertyData' # propertyData /\ estimatedValue' = NULL
      ]_vars

\* C14 witness: a result was delivered, no field was edited since, the form
\* was submitted again, and the earlier result is displayed while the new
\* computation is pending.
C14_Witness ==
    /\ isCalculating
    /\ timers # <<>>
    /\ timers[1].propertyData = propertyData
    /\ estimatedValue # NULL
    /\ resultFrom = propertyData

====
